---- MODULE Spec2Model ----
(***************************************************************************)
(* Model of autofit.graphical.expectation_propagation.EPMeanField          *)
(* (src/autofit/graphical/expectation_propagation/ep_mean_field.py).       *)
(*                                                                         *)
(* The heap holds Python dict objects (`dicts`) and EPMeanField objects    *)
(* (`eps`); an EPMeanField stores a REFERENCE to a dict, exactly as        *)
(* __init__ does, so aliasing between a caller's dict and an EPMeanField   *)
(* is visible.  `held` is the set of dicts the caller has a reference to,  *)
(* `result` is the outcome of the last call (its arguments, what it        *)
(* returned or the error it raised).                                       *)
(*                                                                         *)
(* Messages are exponential-family messages in natural parameters          *)
(* <<precision * mean, precision>>; multiplying two messages adds their    *)
(* natural parameters.  The float 1. used as a seed is <<0, 0>>.           *)
(*                                                                         *)
(* `history` is one FactorHistory (its full log and its successful         *)
(* subsequence) and `hres` the outcome of the last call on it; `ep` is the *)
(* model_approx of an optimisation that visits the factors round by round. *)
(*                                                                         *)
(* `sm` is one ShermanMorrison operator (autofit/mapper/operator.py) and   *)
(* the outcome of the last call on it, with floats as exact rationals;     *)
(* `db` is a database session, the DatabasePaths made on it and the        *)
(* outcome of its last call (autofit/non_linear/paths/database.py);        *)
(* `ident` is the Identifier made last and the outcome of the last         *)
(* comparison (autofit/mapper/model_object.py).                            *)
(***************************************************************************)
EXTENDS Integers, Sequences, FiniteSets, TLC

VARIABLES eps, dicts, held, result, history, hres, ep, sm, db, ident

vars == <<eps, dicts, held, result, history, hres, ep, sm, db, ident>>

\* the variables of the EPMeanField heap, of a FactorHistory and of an EP round
heap == <<eps, dicts, held, result>>

hist == <<history, hres>>

lib == <<sm, db, ident>>

\* ------------------------------------------------------------------ bounds
MaxObjs == 2
MaxDicts == 2

\* ------------------------------------------------- factor graph substrate
Variables == {"x", "y"}

AllFactors == {"f1", "f2"}

\* Factor.variables: the free variables a factor touches
FactorVariables(f) == {"x"}

\* Factor.deterministic_variables: the variables a factor computes
FactorDeterministic(f) == IF f = "f2" THEN {"y"} ELSE {}

\* Factor.all_variables
FactorAllVariables(f) == FactorVariables(f) \cup FactorDeterministic(f)

\* the factor graphs of the model: a graph is the set of its factors
Graphs == {{"f1"}, {"f1", "f2"}}

\* FactorGraph.all_variables
GraphAllVariables(g) == UNION {FactorAllVariables(f) : f \in g}

\* ---------------------------------------------------------------- messages
\* the float 1. that seeds a product
One == <<0, 0>>

\* Gaussian(mean=0, sigma=1) and a second, different message
UnitGaussian == <<0, 1>>

Msgs == {UnitGaussian, <<1, 2>>}

\* AbstractMessage.__mul__ / __rmul__: natural parameters add, 1. * m = m
MsgMul(a, b) == <<a[1] + b[1], a[2] + b[2]>>

\* -------------------------------------------------------------- MeanField
\* MeanField.all_variables: the keys of the mapping
MeanFieldAllVariables(mf) == DOMAIN mf

\* product of two MeanFields: union of keys, pointwise product on the
\* overlap, passthrough for the keys only one operand has
MeanFieldProd2(a, b) ==
    [v \in (DOMAIN a) \cup (DOMAIN b) |->
        IF v \in DOMAIN a /\ v \in DOMAIN b THEN MsgMul(a[v], b[v])
        ELSE IF v \in DOMAIN a THEN a[v] ELSE b[v]]

RECURSIVE MeanFieldProd(_, _, _)
\* MeanField.prod(*approxs): self.prod(*[fmf[g] for g in S])
MeanFieldProd(self, fmf, S) ==
    IF S = {} THEN self
    ELSE LET g == CHOOSE h \in S : TRUE
         IN MeanFieldProd(MeanFieldProd2(self, fmf[g]), fmf, S \ {g})

\* MeanField({v: 1. for v in vs})
IdentityMeanField(vs) == [v \in vs |-> One]

\* the MeanFields over a given key set with messages of Msgs
MeanFieldsOver(vs) == [vs -> Msgs]

\* ------------------------------------------------------------ EPMeanField
\* a FactorApproximation: factor, cavity_dist, factor_dist, model_dist
NoApprox == [factor |-> "", cavity_dist |-> <<>>, factor_dist |-> <<>>,
             model_dist |-> <<>>]

\* the record of a call: its name, the EPMeanField it was made on, its
\* arguments, the error it raised, what it returned (the number of an
\* EPMeanField or of a dict, a FactorApproximation) and, in pre, the mapping
\* of self before the call (the approx_dists of from_approx_dists)
NoResult == [op |-> "none", self |-> 0, factor |-> "", graph |-> {},
             err |-> "", ret |-> 0, approx |-> NoApprox, pre |-> <<>>,
             raised |-> FALSE, logged |-> FALSE, nan |-> FALSE]

\* self._factor_mean_field of EPMeanField number e
Fmf(e) == dicts[eps[e].fmf]

\* a mapping with fmf[f] = mf (dict.__setitem__)
WithItem(fmf, f, mf) ==
    [g \in (DOMAIN fmf) \cup {f} |-> IF g = f THEN mf ELSE fmf[g]]

\* dict.pop(f) with a default: never a KeyError
DictPopDefault(fmf, f) ==
    [ok |-> TRUE,
     value |-> IF f \in DOMAIN fmf THEN fmf[f] ELSE <<>>,
     rest |-> [g \in (DOMAIN fmf) \ {f} |-> fmf[g]]]

\* dict.pop(f): the value and the mapping left, or a KeyError (ok = FALSE)
DictPop(fmf, f) ==
    IF f \in DOMAIN fmf
    THEN [ok |-> TRUE, value |-> fmf[f],
          rest |-> [g \in (DOMAIN fmf) \ {f} |-> fmf[g]]]
    ELSE [ok |-> FALSE, value |-> <<>>, rest |-> fmf]

\* dict.get(v, 1.): never a KeyError
DictGetDefault(approx_dists, v) ==
    [ok |-> TRUE,
     value |-> IF v \in DOMAIN approx_dists THEN approx_dists[v] ELSE One]

\* approx_dists[v]: the value, or a KeyError (ok = FALSE)
DictGetItem(approx_dists, v) ==
    IF v \in DOMAIN approx_dists
    THEN [ok |-> TRUE, value |-> approx_dists[v]]
    ELSE [ok |-> FALSE, value |-> One]

\* no copy: the dict itself
DictAlias(d) == [ref |-> d, value |-> dicts[d]]

\* dict.copy(): a fresh dict object (ref 0: not yet on the heap) with the
\* same items
DictCopy(d) == [ref |-> 0, value |-> dicts[d]]

\* EPMeanField.__init__: the object keeps the dict it was given
EPMeanFieldInit(graph, d) == [factor_graph |-> graph, fmf |-> d]

\* the attribute self._factor_mean_field, uncopied
FactorMeanFieldAttribute(e) == DictAlias(eps[e].fmf)

\* EPMeanField.factor_mean_field (property): a copy of the mapping
FactorMeanFieldProperty(e) == DictCopy(eps[e].fmf)

\* Status (utils.py): a success flag and diagnostic messages
Status(success, messages) == [success |-> success, messages |-> messages]

\* FactorHistory(factor): nothing recorded
NoHistory == [log |-> <<>>, successes |-> <<>>]

\* an EPMeanField as a value: its factor_graph and its mapping
Snapshot(id, graph, fmf) == [id |-> id, factor_graph |-> graph, fmf |-> fmf]

NoSnapshot == Snapshot(0, {}, <<>>)

\* the record of a call on the FactorHistory
NoHRes == [op |-> "none", err |-> "", approx |-> NoSnapshot, asked |-> {},
           kl |-> 0, evidence |-> 0,
           status |-> Status(TRUE, <<>>), before |-> NoHistory]

\* no EP round started
NoRound == [model_approx |-> NoSnapshot, start |-> NoSnapshot,
            pending |-> {}, identity |-> TRUE, rounds |-> 0]

\* no ShermanMorrison operator built
NoSm == [built |-> FALSE, scale |-> <<>>, vec |-> <<>>, inv_scale |-> <<>>,
         op |-> "none", x |-> <<>>, arg |-> <<>>, err |-> "", ret |-> <<>>]

\* no DatabasePaths made: the rows of the session, the rows it had when the
\* paths was made, the last call (its name, error and return value) and, for
\* the claims, whether completed() was called and the last save or remove of
\* every name
NoDb == [made |-> FALSE, session |-> <<>>, initial |-> <<>>,
         op |-> "none", name |-> "", err |-> "", ret |-> "",
         completed |-> FALSE, last |-> <<>>]

\* no Identifier made: the last call, the objects it was made on, the errors
\* raised, the hash lists and whether the two Identifiers were equal
NoIdent == [op |-> "none", a |-> <<>>, b |-> <<>>, err_a |-> "", err_b |-> "",
            hash_a |-> <<>>, hash_b |-> <<>>, equal |-> FALSE]

Init ==
    /\ eps = <<>>
    /\ dicts = <<>>
    /\ held = {}
    /\ result = NoResult
    /\ history = NoHistory
    /\ hres = NoHRes
    /\ ep = NoRound
    /\ sm = NoSm
    /\ db = NoDb
    /\ ident = NoIdent

\* from_approx_dists keyed by the free variables only
FromApproxDistsKeysFree(f) == FactorVariables(f)

\* the variables from_approx_dists gives the MeanField of factor f
FromApproxDistsKeys(f) == FactorAllVariables(f)

\* the dict comprehension of from_approx_dists raises KeyError when a lookup
\* approx_dists[v] does
FromApproxDistsFails(graph, approx_dists) ==
    \E f \in graph : \E v \in FromApproxDistsKeys(f) :
        ~DictGetItem(approx_dists, v).ok

FromApproxDistsDict(graph, approx_dists) ==
    [f \in graph |->
        [v \in FromApproxDistsKeys(f) |-> DictGetItem(approx_dists, v).value]]

\* EPMeanField.from_approx_dists(factor_graph, approx_dists)
FromApproxDists(graph, approx_dists) ==
    IF FromApproxDistsFails(graph, approx_dists)
    THEN /\ result' = [NoResult EXCEPT !.op = "from_approx_dists",
                                       !.graph = graph,
                                       !.err = "KeyError",
                                       !.pre = approx_dists]
         /\ UNCHANGED <<eps, dicts, held>>
    ELSE /\ Len(eps) < MaxObjs
         /\ Len(dicts) < MaxDicts
         /\ dicts' = Append(dicts, FromApproxDistsDict(graph, approx_dists))
         /\ eps' = Append(eps, EPMeanFieldInit(graph, Len(dicts) + 1))
         /\ result' = [NoResult EXCEPT !.op = "from_approx_dists",
                                       !.graph = graph,
                                       !.ret = Len(eps) + 1,
                                       !.pre = approx_dists]
         /\ UNCHANGED held

\* the copy factor_approximation pops the factor from
FactorApproximationCopy(e) == DictCopy(eps[e].fmf)

\* factor_mean_field.pop(factor)
FactorApproximationPop(fmf, f) == DictPop(fmf, f)

\* a cavity that also multiplies in the factor's own MeanField
CavityDistWithSelf(factor_dist, rest) ==
    MeanFieldProd2(
        MeanFieldProd(IdentityMeanField(MeanFieldAllVariables(factor_dist)),
                      rest, DOMAIN rest),
        factor_dist)

\* cavity_dist of factor_approximation: the identity MeanField over the
\* variables of factor_dist, times the MeanFields left after the pop
CavityDist(factor_dist, rest) ==
    MeanFieldProd(IdentityMeanField(MeanFieldAllVariables(factor_dist)),
                  rest, DOMAIN rest)

\* a model_dist that leaves the cavity out
ModelDistFactorOnly(factor_dist, cavity_dist) == factor_dist

\* model_dist of factor_approximation: factor_dist.prod(cavity_dist)
ModelDist(factor_dist, cavity_dist) == MeanFieldProd2(factor_dist, cavity_dist)

\* the FactorApproximation built from the popped factor_dist and the rest
MakeFactorApproximation(f, factor_dist, rest) ==
    [factor |-> f,
     cavity_dist |-> CavityDist(factor_dist, rest),
     factor_dist |-> factor_dist,
     model_dist |-> ModelDist(factor_dist, CavityDist(factor_dist, rest))]

\* factor_approximation(factor) of an EPMeanField with the mapping fmf: the
\* FactorApproximation, or a KeyError (ok = FALSE)
FactorApproximationOf(fmf, f) ==
    LET popped == FactorApproximationPop(fmf, f)
    IN [ok |-> popped.ok,
        approx |-> IF popped.ok
                   THEN MakeFactorApproximation(f, popped.value, popped.rest)
                   ELSE NoApprox]

\* EPMeanField.factor_approximation(factor) on EPMeanField number e
FactorApproximation(e, f) ==
    LET copy == FactorApproximationCopy(e)
        popped == FactorApproximationPop(copy.value, f)
    IN IF ~popped.ok
       THEN /\ result' = [NoResult EXCEPT !.op = "factor_approximation",
                                          !.self = e, !.factor = f,
                                          !.err = "KeyError",
                                          !.pre = Fmf(e)]
            /\ UNCHANGED <<eps, dicts, held>>
       ELSE /\ dicts' = IF copy.ref = 0 THEN dicts
                        ELSE [dicts EXCEPT ![copy.ref] = popped.rest]
            /\ result' = [NoResult EXCEPT
                            !.op = "factor_approximation",
                            !.self = e, !.factor = f,
                            !.approx = MakeFactorApproximation(
                                           f, popped.value, popped.rest),
                            !.pre = Fmf(e)]
            /\ UNCHANGED <<eps, held>>

\* a projection that stores model_dist instead of factor_dist
ProjectedMappingModel(fmf, projection) ==
    WithItem(fmf, projection.factor, projection.model_dist)

\* a mapping that holds the projected factor only
ProjectedMappingOnly(fmf, projection) ==
    [f \in {projection.factor} |-> projection.factor_dist]

\* factor_mean_field[projection.factor] = projection.factor_dist
ProjectedMapping(fmf, projection) ==
    WithItem(fmf, projection.factor, projection.factor_dist)

\* EPMeanField.project_factor_approx(projection) on EPMeanField number e
ProjectFactorApprox(e, projection) ==
    LET factor_mean_field == FactorMeanFieldProperty(e)
        updated == ProjectedMapping(factor_mean_field.value, projection)
        d == IF factor_mean_field.ref = 0 THEN Len(dicts) + 1
             ELSE factor_mean_field.ref
    IN /\ Len(eps) < MaxObjs
       /\ factor_mean_field.ref = 0 => Len(dicts) < MaxDicts
       /\ dicts' = IF factor_mean_field.ref = 0 THEN Append(dicts, updated)
                   ELSE [dicts EXCEPT ![d] = updated]
       /\ eps' = Append(eps, EPMeanFieldInit(eps[e].factor_graph, d))
       /\ result' = [NoResult EXCEPT !.op = "project_factor_approx",
                                     !.self = e,
                                     !.factor = projection.factor,
                                     !.ret = Len(eps) + 1,
                                     !.approx = projection,
                                     !.pre = Fmf(e)]
       /\ UNCHANGED held

\* a caller reads the factor_mean_field property and keeps the dict
GetFactorMeanField(e) ==
    LET factor_mean_field == FactorMeanFieldProperty(e)
        d == IF factor_mean_field.ref = 0 THEN Len(dicts) + 1
             ELSE factor_mean_field.ref
    IN /\ factor_mean_field.ref = 0 => Len(dicts) < MaxDicts
       /\ dicts' = IF factor_mean_field.ref = 0
                   THEN Append(dicts, factor_mean_field.value) ELSE dicts
       /\ held' = held \cup {d}
       /\ result' = [NoResult EXCEPT !.op = "factor_mean_field",
                                     !.self = e, !.ret = d, !.pre = Fmf(e)]
       /\ UNCHANGED eps

\* a caller assigns d[f] = mf on a dict it holds
SetItem(d, f, mf) ==
    /\ d \in held
    /\ dicts[d] # WithItem(dicts[d], f, mf)
    /\ dicts' = [dicts EXCEPT ![d] = WithItem(@, f, mf)]
    /\ result' = [NoResult EXCEPT !.op = "setitem", !.factor = f, !.ret = d,
                                  !.pre = dicts[d]]
    /\ UNCHANGED <<eps, held>>

\* a caller calls EPMeanField(factor_graph, factor_mean_field) with a dict it
\* holds (test_history.py make_approx)
Construct(graph, d) ==
    /\ d \in held
    /\ Len(eps) < MaxObjs
    /\ eps' = Append(eps, EPMeanFieldInit(graph, d))
    /\ result' = [NoResult EXCEPT !.op = "init", !.graph = graph,
                                  !.ret = Len(eps) + 1, !.pre = dicts[d]]
    /\ UNCHANGED <<dicts, held>>

\* a product that counts one factor twice
MeanFieldOfTwice(graph, fmf) ==
    MeanFieldProd(
        IF DOMAIN fmf = {} THEN IdentityMeanField(GraphAllVariables(graph))
        ELSE MeanFieldProd2(IdentityMeanField(GraphAllVariables(graph)),
                            fmf[CHOOSE f \in DOMAIN fmf : TRUE]),
        fmf, DOMAIN fmf)

\* EPMeanField.mean_field (property) of a graph and a mapping
MeanFieldOf(graph, fmf) ==
    MeanFieldProd(IdentityMeanField(GraphAllVariables(graph)), fmf, DOMAIN fmf)

\* EPMeanField.mean_field of EPMeanField number e
MeanField(e) == MeanFieldOf(eps[e].factor_graph, Fmf(e))

\* ------------------------------------------------------------ log_evidence
\* the orders in which the elements of a set can be enumerated
Perms(S) ==
    {s \in [1 .. Cardinality(S) -> S] : \A x \in S : \E i \in DOMAIN s : s[i] = x}

\* the log-normalisation constant of one message (an abstract, non-linear
\* function of its natural parameters)
MsgLogNorm(m) == m[1] * m[1] + m[2] * m[2] + 1

RECURSIVE MsgSeqProd(_)
\* the product of a list of messages
MsgSeqProd(ms) ==
    IF ms = <<>> THEN One ELSE MsgMul(MsgSeqProd(SubSeq(ms, 1, Len(ms) - 1)),
                                      ms[Len(ms)])

\* AbstractMessage.log_normalisation(*ms): of the product of the messages
MsgLogNormalisation(ms) == MsgLogNorm(MsgSeqProd(ms))

RECURSIVE SetSum(_, _)
\* the sum of t[x] over the elements x of S
SetSum(S, t) ==
    IF S = {} THEN 0
    ELSE LET x == CHOOSE y \in S : TRUE IN t[x] + SetSum(S \ {x}, t)

\* MeanField.log_norm: the sum of the log-normalisations of its messages
MeanFieldLogNorm(mf) == SetSum(DOMAIN mf, [v \in DOMAIN mf |-> MsgLogNorm(mf[v])])

RECURSIVE Sum(_)
\* a sum that keeps only its last term
SumLast(terms) == IF terms = <<>> THEN 0 ELSE terms[Len(terms)]

\* the builtin sum(...) of a sequence of terms, left to right from 0
Sum(terms) ==
    IF terms = <<>> THEN 0
    ELSE Sum(SubSeq(terms, 1, Len(terms) - 1)) + terms[Len(terms)]

RECURSIVE VariableMessages(_, _, _)
\* variable_messages[v]: the messages for v of the MeanFields, in the order
\* forder in which the mapping enumerates its factors
VariableMessages(fmf, forder, v) ==
    IF forder = <<>> THEN <<>>
    ELSE LET front == VariableMessages(fmf, SubSeq(forder, 1, Len(forder) - 1), v)
             f == forder[Len(forder)]
         IN IF v \in DOMAIN fmf[f] THEN Append(front, fmf[f][v]) ELSE front

\* variable_evidence[v]
VariableEvidence(fmf, forder, v) ==
    MsgLogNormalisation(VariableMessages(fmf, forder, v))

\* the term of factor f in factor_evidence: its MeanField's log_norm minus
\* the evidence of each variable it touches
FactorEvidenceTerm(fmf, forder, f) ==
    MeanFieldLogNorm(fmf[f])
        - SetSum(FactorAllVariables(f),
                 [v \in FactorAllVariables(f) |-> VariableEvidence(fmf, forder, v)])

\* a log_evidence that leaves out the sum of the variable evidences
LogEvidenceFactorsOnly(fmf, forder, vorder) ==
    Sum([i \in DOMAIN forder |-> FactorEvidenceTerm(fmf, forder, forder[i])])

\* EPMeanField.log_evidence, the factors enumerated in the order forder and
\* the variables in the order vorder
LogEvidenceValue(fmf, forder, vorder) ==
    Sum([i \in DOMAIN forder |-> FactorEvidenceTerm(fmf, forder, forder[i])])
        + Sum([i \in DOMAIN vorder |-> VariableEvidence(fmf, forder, vorder[i])])

\* log_evidence raises: a MeanField holds a variable the graph does not have
\* (variable_messages[v], line 185), a factor of the mapping touches one
\* (variable_evidence[v], line 226), or, when empty_raises, a variable of the
\* graph has no message at all (log_normalisation of nothing)
LogEvidenceRaises(graph, fmf, empty_raises) ==
    \/ \E f \in DOMAIN fmf : \E v \in DOMAIN fmf[f] : v \notin GraphAllVariables(graph)
    \/ \E f \in DOMAIN fmf : \E v \in FactorAllVariables(f) :
           v \notin GraphAllVariables(graph)
    \/ /\ empty_raises
       /\ \E v \in GraphAllVariables(graph) : \A f \in DOMAIN fmf : v \notin DOMAIN fmf[f]

\* reading EPMeanField.log_evidence of EPMeanField number e
LogEvidence(e, forder, vorder, empty_raises) ==
    /\ forder \in Perms(DOMAIN Fmf(e))
    /\ vorder \in Perms(GraphAllVariables(eps[e].factor_graph))
    /\ result' =
           IF LogEvidenceRaises(eps[e].factor_graph, Fmf(e), empty_raises)
           THEN [NoResult EXCEPT !.op = "log_evidence", !.self = e,
                                 !.err = "Exception", !.raised = TRUE,
                                 !.pre = Fmf(e)]
           ELSE [NoResult EXCEPT !.op = "log_evidence", !.self = e,
                                 !.ret = LogEvidenceValue(Fmf(e), forder, vorder),
                                 !.pre = Fmf(e)]
    /\ UNCHANGED <<eps, dicts, held>>

\* a __repr__ without the try: the exception of log_evidence propagates
ReprNoTry(raised) ==
    [err |-> IF raised THEN "Exception" ELSE "", logged |-> FALSE, nan |-> FALSE]

\* the try/except of __repr__: an exception of log_evidence is logged and
\* log_evidence is reported as float("nan")
ReprTry(raised) == [err |-> "", logged |-> raised, nan |-> raised]

\* EPMeanField.__repr__ of EPMeanField number e
Repr(e, forder, vorder, empty_raises) ==
    LET raised == LogEvidenceRaises(eps[e].factor_graph, Fmf(e), empty_raises)
        outcome == ReprTry(raised)
    IN /\ forder \in Perms(DOMAIN Fmf(e))
       /\ vorder \in Perms(GraphAllVariables(eps[e].factor_graph))
       /\ result' = [NoResult EXCEPT
                       !.op = "repr", !.self = e, !.pre = Fmf(e),
                       !.raised = raised,
                       !.err = outcome.err,
                       !.logged = outcome.logged,
                       !.nan = outcome.nan,
                       !.ret = IF raised THEN 0
                               ELSE LogEvidenceValue(Fmf(e), forder, vorder)]
       /\ UNCHANGED <<eps, dicts, held>>

\* ------------------------------------------------------------- the inputs
Objs == 1 .. Len(eps)

\* every MeanField over any set of variables
AnyMeanField == UNION {MeanFieldsOver(K) : K \in SUBSET Variables}

\* a factor-to-MeanField mapping that fits a graph: one MeanField per factor
\* of the graph, keyed by the variables the factor touches
WellFormed(graph, fmf) ==
    /\ DOMAIN fmf = graph
    /\ \A f \in graph : DOMAIN fmf[f] = FactorAllVariables(f)

\* the projections an optimiser returns for EPMeanField e: the approximation
\* of a factor of the mapping with a new factor_dist over the same variables
Projections(e) ==
    {[factor |-> p[1],
      cavity_dist |-> CavityDist(Fmf(e)[p[1]], DictPop(Fmf(e), p[1]).rest),
      factor_dist |-> p[2],
      model_dist |-> ModelDist(p[2], CavityDist(Fmf(e)[p[1]],
                                                DictPop(Fmf(e), p[1]).rest))] :
        p \in {q \in (DOMAIN Fmf(e)) \X AnyMeanField :
                  DOMAIN q[2] = DOMAIN Fmf(e)[q[1]]}}

\* any factor with any MeanField, as a caller can build by hand
AnyProjections ==
    {[factor |-> p[1], cavity_dist |-> <<>>, factor_dist |-> p[2],
      model_dist |-> <<>>] : p \in AllFactors \X AnyMeanField}

CallFromApproxDists ==
    \E graph \in Graphs : \E approx_dists \in AnyMeanField :
        FromApproxDists(graph, approx_dists) /\ UNCHANGED <<hist, ep, lib>>

CallFactorApproximation ==
    \E e \in Objs : \E f \in AllFactors :
        FactorApproximation(e, f) /\ UNCHANGED <<hist, ep, lib>>

CallProject ==
    \E e \in Objs : \E projection \in Projections(e) :
        ProjectFactorApprox(e, projection) /\ UNCHANGED <<hist, ep, lib>>

CallProjectAny ==
    \E e \in Objs : \E projection \in AnyProjections :
        ProjectFactorApprox(e, projection) /\ UNCHANGED <<hist, ep, lib>>

CallGetFactorMeanField ==
    \E e \in Objs : GetFactorMeanField(e) /\ UNCHANGED <<hist, ep, lib>>

\* the caller replaces an entry by another MeanField over the same variables
CallSetItem ==
    \E d \in held : \E f \in DOMAIN dicts[d] :
        \E mf \in MeanFieldsOver(DOMAIN dicts[d][f]) :
            SetItem(d, f, mf) /\ UNCHANGED <<hist, ep, lib>>

\* the caller constructs an EPMeanField from a mapping that fits the graph
CallConstruct ==
    \E graph \in Graphs : \E d \in held :
        WellFormed(graph, dicts[d]) /\ Construct(graph, d) /\ UNCHANGED <<hist, ep, lib>>

CallLogEvidence ==
    \E e \in Objs : \E forder \in Perms(DOMAIN Fmf(e)) :
        \E vorder \in Perms(GraphAllVariables(eps[e].factor_graph)) :
            \E empty_raises \in BOOLEAN :
                LogEvidence(e, forder, vorder, empty_raises)
                    /\ UNCHANGED <<hist, ep, lib>>

CallRepr ==
    \E e \in Objs : \E empty_raises \in BOOLEAN :
        Repr(e, CHOOSE forder \in Perms(DOMAIN Fmf(e)) : TRUE,
             CHOOSE vorder \in Perms(GraphAllVariables(eps[e].factor_graph)) : TRUE,
             empty_raises)
            /\ UNCHANGED <<hist, ep, lib>>

\* the engine as its callers drive it: well-formed mappings and projections
Next ==
    \/ CallFromApproxDists
    \/ CallFactorApproximation
    \/ CallProject
    \/ CallGetFactorMeanField
    \/ CallSetItem
    \/ CallConstruct

Spec == Init /\ [][Next]_vars

\* the engine with projections of any shape: project_factor_approx takes
\* whatever FactorApproximation it is handed
NextAny ==
    \/ CallFromApproxDists
    \/ CallFactorApproximation
    \/ CallProjectAny

SpecAny == Init /\ [][NextAny]_vars

\* EPMeanFields built and projected by the engine, and their log_evidence
NextEvidence ==
    \/ CallFromApproxDists
    \/ CallProject
    \/ CallLogEvidence

SpecEvidence == Init /\ [][NextEvidence]_vars

\* EPMeanFields of any shape, and their diagnostic representation
NextRepr ==
    \/ CallFromApproxDists
    \/ CallProjectAny
    \/ CallRepr

SpecRepr == Init /\ [][NextRepr]_vars

\* ----------------------------------------------------------- FactorHistory
\* the number of records a history is followed for
MaxRecords == 3

\* Status(): success defaults to True, messages to ()
DefaultStatus == Status(TRUE, <<>>)

\* the statuses recorded: the fixtures success and failure
Statuses == {Status(TRUE, <<>>), Status(FALSE, <<>>), Status(FALSE, <<"failed">>)}

\* the approximations recorded: the fixture approx (one factor, one message
\* for its variable) and its copies, which are other objects of equal value
HistoryApproxes ==
    {Snapshot(i, {"f1"}, [f \in {"f1"} |-> [v \in {"x"} |-> m]]) :
         i \in {1, 2}, m \in Msgs}

\* two approximations are equal in value (they may be different objects)
SameValue(a, b) == a.factor_graph = b.factor_graph /\ a.fmf = b.fmf

\* a status that is always truthy
StatusAlwaysTrue(status) == TRUE

\* Status.__bool__
StatusBool(status) == status.success

\* a failed record overwrites the latest successful approximation
RecordSuccessesOverwrite(successes, approx, status) ==
    IF StatusBool(status) \/ successes = <<>> THEN Append(successes, approx)
    ELSE [successes EXCEPT ![Len(successes)] = approx]

\* a failed record drops the latest successful approximation
RecordSuccessesDropOnFailure(successes, approx, status) ==
    IF StatusBool(status) THEN Append(successes, approx)
    ELSE SubSeq(successes, 1, Len(successes) - 1)

\* the successful subsequence after recording (approx, status)
RecordSuccesses(successes, approx, status) ==
    IF StatusBool(status) THEN Append(successes, approx) ELSE successes

\* the history after recording (approx, status)
RecordInto(h, approx, status) ==
    [log |-> Append(h.log, <<approx, status>>),
     successes |-> RecordSuccesses(h.successes, approx, status)]

\* FactorHistory.record(approx, status), written factor_history(approx, status)
Record(approx, status) ==
    /\ Len(history.log) < MaxRecords
    /\ history' = RecordInto(history, approx, status)
    /\ hres' = [NoHRes EXCEPT !.op = "record", !.approx = approx,
                              !.status = status, !.before = history]

\* the entry `back` places from the end of the successful subsequence
HistoryIndex(successes, back) ==
    IF Len(successes) < back THEN [ok |-> FALSE, value |-> NoSnapshot]
    ELSE [ok |-> TRUE, value |-> successes[Len(successes) - back + 1]]

\* the first entry of the successful subsequence
LatestSuccessfulFirst(successes) ==
    IF successes = <<>> THEN [ok |-> FALSE, value |-> NoSnapshot]
    ELSE [ok |-> TRUE, value |-> successes[1]]

\* FactorHistory.latest_successful
LatestSuccessfulOf(successes) == HistoryIndex(successes, 1)

\* the last entry again
PreviousSuccessfulLatest(successes) == HistoryIndex(successes, 1)

\* FactorHistory.previous_successful
PreviousSuccessfulOf(successes) == HistoryIndex(successes, 2)

\* the outcome of a property of the history: the entry, or an error
Query(op, found) ==
    /\ hres' = [NoHRes EXCEPT !.op = op,
                              !.err = IF found.ok THEN "" ELSE "Error",
                              !.approx = found.value]
    /\ UNCHANGED history

LatestSuccessful == Query("latest_successful", LatestSuccessfulOf(history.successes))

PreviousSuccessful ==
    Query("previous_successful", PreviousSuccessfulOf(history.successes))

\* the divergence of one message from another (zero between equal messages)
MsgKl(p, q) ==
    (p[1] - q[1]) * (p[1] - q[1]) + (p[2] - q[2]) * (p[2] - q[2])

\* MeanField.kl: the sum of the divergences of its messages
MeanFieldKl(p, q) ==
    SetSum(DOMAIN p, [v \in DOMAIN p |->
                         IF v \in DOMAIN q THEN MsgKl(p[v], q[v]) ELSE 1])

\* approx.mean_field and approx.log_evidence of a recorded approximation
SnapshotMeanField(a) == MeanFieldOf(a.factor_graph, a.fmf)

SnapshotLogEvidence(a) ==
    LogEvidenceValue(a.fmf,
                     CHOOSE forder \in Perms(DOMAIN a.fmf) : TRUE,
                     CHOOSE vorder \in Perms(GraphAllVariables(a.factor_graph)) : TRUE)

\* the divergences compare the latest success with the oldest one
DivergencePairOldest(successes) ==
    [ok |-> Len(successes) >= 2,
     latest |-> LatestSuccessfulOf(successes).value,
     previous |-> LatestSuccessfulFirst(successes).value]

\* the two approximations the divergences compare
DivergencePair(successes) ==
    [ok |-> LatestSuccessfulOf(successes).ok /\ PreviousSuccessfulOf(successes).ok,
     latest |-> LatestSuccessfulOf(successes).value,
     previous |-> PreviousSuccessfulOf(successes).value]

\* the divergences already asked of this history since the last record
Asked == IF hres.op \in {"kl_divergence", "evidence_divergence"} THEN hres ELSE NoHRes

\* FactorHistory.kl_divergence()
KlDivergence ==
    LET pair == DivergencePair(history.successes)
    IN /\ hres' = [Asked EXCEPT
                     !.op = "kl_divergence",
                     !.err = IF pair.ok THEN "" ELSE "Error",
                     !.asked = @ \cup {"kl_divergence"},
                     !.kl = IF pair.ok
                            THEN MeanFieldKl(SnapshotMeanField(pair.latest),
                                             SnapshotMeanField(pair.previous))
                            ELSE 0]
       /\ UNCHANGED history

\* FactorHistory.evidence_divergence()
EvidenceDivergence ==
    LET pair == DivergencePair(history.successes)
    IN /\ hres' = [Asked EXCEPT
                     !.op = "evidence_divergence",
                     !.err = IF pair.ok THEN "" ELSE "Error",
                     !.asked = @ \cup {"evidence_divergence"},
                     !.evidence = IF pair.ok
                                  THEN SnapshotLogEvidence(pair.latest)
                                           - SnapshotLogEvidence(pair.previous)
                                  ELSE 0]
       /\ UNCHANGED history

CallRecord ==
    \E approx \in HistoryApproxes : \E status \in Statuses :
        Record(approx, status) /\ UNCHANGED <<heap, ep, lib>>

CallLatestSuccessful == LatestSuccessful /\ UNCHANGED <<heap, ep, lib>>

CallPreviousSuccessful == PreviousSuccessful /\ UNCHANGED <<heap, ep, lib>>

CallKlDivergence == KlDivergence /\ UNCHANGED <<heap, ep, lib>>

CallEvidenceDivergence == EvidenceDivergence /\ UNCHANGED <<heap, ep, lib>>

NextHistory ==
    \/ CallRecord
    \/ CallLatestSuccessful
    \/ CallPreviousSuccessful
    \/ CallKlDivergence
    \/ CallEvidenceDivergence

SpecHistory == Init /\ [][NextHistory]_vars

\* ---------------------------------------------------------------- EP round
\* the number of rounds an optimisation is followed for
MaxRounds == 2

\* the first round starts from EPMeanField.from_approx_dists(graph, approx_dists)
RoundStart(graph, approx_dists) ==
    /\ ep.rounds = 0
    /\ ~FromApproxDistsFails(graph, approx_dists)
    /\ ep' = [model_approx |-> Snapshot(1, graph, FromApproxDistsDict(graph, approx_dists)),
              start |-> Snapshot(1, graph, FromApproxDistsDict(graph, approx_dists)),
              pending |-> graph, identity |-> TRUE, rounds |-> 1]

\* model_approx.factor_approximation(factor)
RoundFactorApproximation(f) ==
    LET popped == FactorApproximationPop(ep.model_approx.fmf, f)
    IN MakeFactorApproximation(f, popped.value, popped.rest)

\* model_approx.project_factor_approx(projection), the factor then done for
\* this round; identity tells whether the optimiser returned the cavity
RoundProject(projection, identity) ==
    ep' = [ep EXCEPT
             !.model_approx = Snapshot(1, ep.model_approx.factor_graph,
                                       ProjectedMapping(ep.model_approx.fmf,
                                                        projection)),
             !.pending = @ \ {projection.factor},
             !.identity = @ /\ identity]

\* one factor's step with an optimiser that returns the cavity unchanged
RoundStepIdentity(f) ==
    /\ f \in ep.pending
    /\ LET factor_approx == RoundFactorApproximation(f)
       IN RoundProject([factor_approx EXCEPT
                           !.factor_dist = factor_approx.cavity_dist], TRUE)

\* one factor's step with an optimiser that returns some other MeanField
\* over the factor's variables
RoundStepOptimised(f, factor_dist) ==
    /\ f \in ep.pending
    /\ DOMAIN factor_dist = DOMAIN ep.model_approx.fmf[f]
    /\ LET factor_approx == RoundFactorApproximation(f)
       IN /\ factor_dist # factor_approx.cavity_dist
          /\ RoundProject([factor_approx EXCEPT !.factor_dist = factor_dist],
                          FALSE)

\* every factor was visited: the next round visits them all again
RoundNext ==
    /\ ep.rounds >= 1
    /\ ep.rounds < MaxRounds
    /\ ep.pending = {}
    /\ ep' = [ep EXCEPT !.pending = ep.model_approx.factor_graph,
                        !.rounds = @ + 1]

CallRoundStart ==
    \E graph \in Graphs : \E approx_dists \in AnyMeanField :
        RoundStart(graph, approx_dists) /\ UNCHANGED <<heap, hist, lib>>

CallRoundStepIdentity ==
    \E f \in AllFactors : RoundStepIdentity(f) /\ UNCHANGED <<heap, hist, lib>>

CallRoundStepOptimised ==
    \E f \in AllFactors : \E factor_dist \in AnyMeanField :
        RoundStepOptimised(f, factor_dist) /\ UNCHANGED <<heap, hist, lib>>

CallRoundNext == RoundNext /\ UNCHANGED <<heap, hist, lib>>

NextRound ==
    \/ CallRoundStart
    \/ CallRoundStepIdentity
    \/ CallRoundStepOptimised
    \/ CallRoundNext

SpecRound == Init /\ [][NextRound]_vars

\* --------------------------------------------------------- linear operators
\* the entries of a scale are 1 .. MaxScale, those of vec 0 .. MaxVec and
\* those of a vector x 0 .. MaxX
MaxScale == 2

MaxVec == 1

MaxX == 1

\* the size of the vectors (the operators are Dim by Dim)
Dim == 2

Idx == 1 .. Dim

Abs(n) == IF n < 0 THEN -n ELSE n

RECURSIVE GCD(_, _)
GCD(a, b) == IF b = 0 THEN a ELSE GCD(b, a % b)

\* a float, kept exactly as the fraction n / d in lowest terms, d > 0
Rat(n, d) ==
    LET g == GCD(Abs(n), Abs(d))
        sign == IF d < 0 THEN -1 ELSE 1
    IN [n |-> sign * (n \div g), d |-> sign * (d \div g)]

FromInt(i) == [n |-> i, d |-> 1]

RatAdd(a, b) == Rat(a.n * b.d + b.n * a.d, a.d * b.d)

RatSub(a, b) == Rat(a.n * b.d - b.n * a.d, a.d * b.d)

RatMul(a, b) == Rat(a.n * b.n, a.d * b.d)

RatDiv(a, b) == Rat(a.n * b.d, a.d * b.n)

\* a one-dimensional array of integers as an array of floats
FromInts(v) == [i \in DOMAIN v |-> FromInt(v[i])]

\* a * b, a / b, a + b, a - b of two arrays of the same shape
VecMul(a, b) == [i \in DOMAIN a |-> RatMul(a[i], b[i])]

VecDiv(a, b) == [i \in DOMAIN a |-> RatDiv(a[i], b[i])]

VecAdd(a, b) == [i \in DOMAIN a |-> RatAdd(a[i], b[i])]

VecSub(a, b) == [i \in DOMAIN a |-> RatSub(a[i], b[i])]

\* r * a of a scalar and an array
VecScale(r, a) == [i \in DOMAIN a |-> RatMul(r, a[i])]

RECURSIVE RatSum(_)
\* the sum of the entries of an array
RatSum(a) ==
    IF a = <<>> THEN FromInt(0)
    ELSE RatAdd(RatSum(SubSeq(a, 1, Len(a) - 1)), a[Len(a)])

RECURSIVE RatProd(_)
\* the product of the entries of an array
RatProd(a) ==
    IF a = <<>> THEN FromInt(1)
    ELSE RatMul(RatProd(SubSeq(a, 1, Len(a) - 1)), a[Len(a)])

\* a.dot(b) of two one-dimensional arrays
Dot(a, b) == RatSum(VecMul(a, b))

\* np.log(r), kept exactly as the number whose logarithm it is; the sum of
\* two logarithms is the logarithm of the product
Log(r) == [log |-> r]

LogAdd(a, b) == Log(RatMul(a.log, b.log))

\* a numpy value with its number of dimensions: a scalar (0), a
\* one-dimensional array (1), a matrix (2)
Array(ndim, value) == [ndim |-> ndim, value |-> value]

\* DiagonalMatrix(scale)
DiagonalMatrix(scale) ==
    [scale |-> scale,
     inv_scale |-> [i \in DOMAIN scale |-> RatDiv(FromInt(1), scale[i])]]

\* DiagonalMatrix.__mul__, __rmul__, __rtruediv__, ldiv on a vector
DiagonalMul(linear, x) == VecMul(linear.scale, x)

DiagonalRMul(linear, x) == VecMul(x, linear.scale)

DiagonalRTrueDiv(linear, x) == VecMul(x, linear.inv_scale)

DiagonalLdiv(linear, x) == VecMul(linear.inv_scale, x)

\* DiagonalMatrix.log_det: np.sum(np.log(self.scale))
DiagonalLogDet(linear) == Log(RatProd(linear.scale))

\* DiagonalMatrix.to_dense: np.diag(self.scale)
DiagonalToDense(linear) ==
    [i \in Idx |-> [j \in Idx |-> IF i = j THEN linear.scale[i] ELSE FromInt(0)]]

\* LinearOperator.quad(M): (M * self).T * self, each product the operator's
\* __rmul__ (through __array_ufunc__), the transpose of a vector the vector
Quad(linear, M) == DiagonalRMul(linear, DiagonalRMul(linear, M))

\* VecOuterProduct(vec)
VecOuterProduct(vec) == [vec |-> vec, vecT |-> vec]

\* the attributes of a VecOuterProduct (its own and LinearOperator's)
VecOuterProductAttributes ==
    {"vec", "vecT", "__mul__", "__rmul__", "__rtruediv__", "ldiv", "log_det",
     "rdiv", "rmul", "lmul", "__matmul__", "__rmatmul__", "shape", "to_dense",
     "__len__", "size", "lshape", "rshape", "quad", "invquad",
     "__array_ufunc__"}

\* VecOuterProduct.__mul__: self.vec @ self.vecT.dot(x)
OuterMul(outer, x) == VecScale(Dot(outer.vecT, x), outer.vec)

\* VecOuterProduct.__rmul__: x.dot(self.vec) @ self.vecT
OuterRMul(outer, x) == VecScale(Dot(x, outer.vec), outer.vecT)

\* VecOuterProduct.to_dense: np.outer(self.vec, self.vecT)
OuterToDense(outer) ==
    [i \in Idx |-> [j \in Idx |-> RatMul(outer.vec[i], outer.vecT[j])]]

\* ShermanMorrison(linear, vec) for a one-dimensional vec:
\* inv_scale = 1 + linear.quad(vec.ravel())
ShermanMorrisonInit(linear, vec) ==
    [linear |-> linear,
     outer |-> VecOuterProduct(vec),
     inv_scale |-> [i \in DOMAIN vec |-> RatAdd(FromInt(1), Quad(linear, vec)[i])]]

\* a product that leaves the update out
ShermanMorrisonMulLinearOnly(S, x) == DiagonalMul(S.linear, x)

\* ShermanMorrison.__mul__: self.linear * x + self.outer * x
ShermanMorrisonMul(S, x) == VecAdd(DiagonalMul(S.linear, x), OuterMul(S.outer, x))

\* ShermanMorrison.__rmul__: x * self.linear + x * self.outer
ShermanMorrisonRMul(S, x) ==
    VecAdd(DiagonalRMul(S.linear, x), OuterRMul(S.outer, x))

\* ShermanMorrison.__rtruediv__:
\* x1 = x / self.linear; x1 - ((x1 / self.inv_scale) * self.outer) / self.linear
ShermanMorrisonRTrueDiv(S, x) ==
    LET x1 == DiagonalRTrueDiv(S.linear, x)
    IN VecSub(x1, DiagonalRTrueDiv(S.linear,
                                   OuterRMul(S.outer, VecDiv(x1, S.inv_scale))))

\* ShermanMorrison.ldiv:
\* x1 = self.linear.ldiv(x); x1 - self.linear.ldiv(self.outer.dot(x1 / self.inv_scale))
\* where self.outer.dot is an attribute lookup on the VecOuterProduct
ShermanMorrisonLdiv(S, x) ==
    LET x1 == DiagonalLdiv(S.linear, x)
    IN IF "dot" \notin VecOuterProductAttributes
       THEN [err |-> "AttributeError", value |-> <<>>]
       ELSE [err |-> "",
             value |-> VecSub(x1, DiagonalLdiv(S.linear,
                                               OuterMul(S.outer,
                                                        VecDiv(x1, S.inv_scale))))]

\* ShermanMorrison.log_det: self.linear.log_det + np.log(self.inv_scale),
\* a scalar plus an array
ShermanMorrisonLogDet(S) ==
    Array(1, [i \in DOMAIN S.inv_scale |->
                 LogAdd(DiagonalLogDet(S.linear), Log(S.inv_scale[i]))])

\* ShermanMorrison.to_dense
ShermanMorrisonToDense(S) ==
    LET dense_outer == OuterToDense(S.outer)
        dense_linear == DiagonalToDense(S.linear)
    IN [i \in Idx |-> [j \in Idx |-> RatAdd(dense_linear[i][j], dense_outer[i][j])]]

\* the operator built last
Built == ShermanMorrisonInit(DiagonalMatrix(FromInts(sm.scale)), FromInts(sm.vec))

\* ShermanMorrison(DiagonalMatrix(scale), vec)
SmInit(scale, vec) ==
    sm' = [NoSm EXCEPT
             !.built = TRUE, !.op = "init", !.scale = scale, !.vec = vec,
             !.inv_scale = ShermanMorrisonInit(DiagonalMatrix(FromInts(scale)),
                                               FromInts(vec)).inv_scale]

\* the outcome of an operation on the operator built last
SmCall(op, x, arg, err, ret) ==
    /\ sm.built
    /\ sm' = [sm EXCEPT !.op = op, !.x = x, !.arg = arg, !.err = err, !.ret = ret]

\* S * x
SmMul(x) ==
    SmCall("mul", x, FromInts(x), "", Array(1, ShermanMorrisonMul(Built, FromInts(x))))

\* x * S
SmRMul(x) ==
    SmCall("rmul", x, FromInts(x), "",
           Array(1, ShermanMorrisonRMul(Built, FromInts(x))))

\* S.ldiv(S * x)
SmLdivMul(x) ==
    LET arg == ShermanMorrisonMul(Built, FromInts(x))
        out == ShermanMorrisonLdiv(Built, arg)
    IN SmCall("ldiv", x, arg, out.err, Array(1, out.value))

\* (x * S) / S
SmRTrueDivRMul(x) ==
    LET arg == ShermanMorrisonRMul(Built, FromInts(x))
    IN SmCall("rtruediv", x, arg, "", Array(1, ShermanMorrisonRTrueDiv(Built, arg)))

\* S.log_det
SmLogDet == SmCall("log_det", <<>>, <<>>, "", ShermanMorrisonLogDet(Built))

\* S.to_dense()
SmToDense == SmCall("to_dense", <<>>, <<>>, "", Array(2, ShermanMorrisonToDense(Built)))

Scales == [Idx -> 1 .. MaxScale]

Vecs == [Idx -> 0 .. MaxVec]

Xs == [Idx -> 0 .. MaxX]

others == <<heap, hist, ep>>

CallSmInit ==
    \E scale \in Scales : \E vec \in Vecs :
        SmInit(scale, vec) /\ UNCHANGED <<others, db, ident>>

CallSmMul == \E x \in Xs : SmMul(x) /\ UNCHANGED <<others, db, ident>>

CallSmRMul == \E x \in Xs : SmRMul(x) /\ UNCHANGED <<others, db, ident>>

CallSmLdivMul == \E x \in Xs : SmLdivMul(x) /\ UNCHANGED <<others, db, ident>>

CallSmRTrueDivRMul ==
    \E x \in Xs : SmRTrueDivRMul(x) /\ UNCHANGED <<others, db, ident>>

CallSmLogDet == SmLogDet /\ UNCHANGED <<others, db, ident>>

CallSmToDense == SmToDense /\ UNCHANGED <<others, db, ident>>

NextOperator ==
    \/ CallSmInit
    \/ CallSmMul
    \/ CallSmRMul
    \/ CallSmLdivMul
    \/ CallSmRTrueDivRMul
    \/ CallSmLogDet
    \/ CallSmToDense

SpecOperator == Init /\ [][NextOperator]_vars

\* ------------------------------------------------------------ DatabasePaths
\* paths.identifier, and the id of a Fit of some other paths
PathsIdentifier == "paths"

OtherIdentifier == "other"

\* the names objects are saved under, and the objects
Names == {"gaussian", "samples"}

Objects == {"g1", "g2"}

\* Fit(id=..., is_complete=...): a row with no objects yet
Fit(id, is_complete) == [id |-> id, is_complete |-> is_complete, objects |-> <<>>]

\* fit[name] = obj, del fit[name], name in fit, fit[name]
FitSetItem(fit, name, obj) == [fit EXCEPT !.objects = WithItem(@, name, obj)]

FitDelItem(fit, name) ==
    [fit EXCEPT !.objects = [n \in (DOMAIN @) \ {name} |-> @[n]]]

FitContains(fit, name) == name \in DOMAIN fit.objects

FitGetItem(fit, name) ==
    IF name \in DOMAIN fit.objects THEN [ok |-> TRUE, value |-> fit.objects[name]]
    ELSE [ok |-> FALSE, value |-> ""]

\* a query that never finds a row
FitQueryNone(session, identifier) == {}

\* session.query(Fit).filter(Fit.id == identifier): the rows found, those
\* added and not yet committed included (the session autoflushes)
FitQuery(session, identifier) ==
    {i \in DOMAIN session : session[i].id = identifier}

\* DatabasePaths._fit: the one row with the paths' identifier, made and added
\* to the session when there is none; `at` is its place in the session
FitProperty(session, identifier) ==
    LET found == FitQuery(session, identifier)
    IN IF found = {}
       THEN [err |-> "", at |-> Len(session) + 1,
             session |-> Append(session, Fit(identifier, FALSE))]
       ELSE IF Cardinality(found) = 1
            THEN [err |-> "", at |-> CHOOSE i \in found : TRUE, session |-> session]
            ELSE [err |-> "MultipleResultsFound", at |-> 0, session |-> session]

\* the outcome of a method of the paths: the session after it, the error it
\* raised and what it returned
DbCall(op, name, session, err, ret, completed, last) ==
    /\ db.made
    /\ db' = [db EXCEPT !.op = op, !.name = name, !.session = session,
                        !.err = err, !.ret = ret,
                        !.completed = completed, !.last = last]

\* DatabasePaths(session)
MakePaths(session) ==
    /\ ~db.made
    /\ db' = [NoDb EXCEPT !.made = TRUE, !.op = "init", !.session = session,
                          !.initial = session,
                          !.last = [n \in Names |-> [kind |-> "none", obj |-> ""]]]

\* paths.is_complete
IsComplete ==
    LET fit == FitProperty(db.session, PathsIdentifier)
    IN DbCall("is_complete", "", fit.session, fit.err,
              IF fit.err = "" THEN fit.session[fit.at].is_complete ELSE "",
              db.completed, db.last)

\* completed() that writes nothing
CompletedNothing(session, at) == session

\* self._fit.is_complete = True
CompletedFit(session, at) == [session EXCEPT ![at].is_complete = TRUE]

\* paths.completed()
Completed ==
    LET fit == FitProperty(db.session, PathsIdentifier)
    IN DbCall("completed", "",
              IF fit.err = "" THEN CompletedFit(fit.session, fit.at) ELSE fit.session,
              fit.err, "", TRUE, db.last)

\* paths.save_object(name, obj)
SaveObject(name, obj) ==
    LET fit == FitProperty(db.session, PathsIdentifier)
    IN DbCall("save_object", name,
              IF fit.err = ""
              THEN [fit.session EXCEPT ![fit.at] = FitSetItem(@, name, obj)]
              ELSE fit.session,
              fit.err, "", db.completed,
              [db.last EXCEPT ![name] = [kind |-> "save", obj |-> obj]])

\* paths.load_object(name); error is what fit[name] raises for a missing name
LoadObject(name, error) ==
    LET fit == FitProperty(db.session, PathsIdentifier)
        got == FitGetItem(fit.session[fit.at], name)
    IN DbCall("load_object", name, fit.session,
              IF fit.err # "" THEN fit.err ELSE IF got.ok THEN "" ELSE error,
              IF fit.err = "" /\ got.ok THEN got.value ELSE "",
              db.completed, db.last)

\* a removal that leaves the object where it is
RemoveFromFitNothing(session, at, name) == session

\* del self._fit[name]
RemoveFromFit(session, at, name) ==
    [session EXCEPT ![at] = FitDelItem(@, name)]

\* paths.remove_object(name); error is what del fit[name] raises for a
\* missing name ("" when it raises nothing)
RemoveObject(name, error) ==
    LET fit == FitProperty(db.session, PathsIdentifier)
    IN DbCall("remove_object", name,
              IF fit.err = "" THEN RemoveFromFit(fit.session, fit.at, name)
              ELSE fit.session,
              IF fit.err # "" THEN fit.err
              ELSE IF FitContains(fit.session[fit.at], name) THEN "" ELSE error,
              "", db.completed,
              [db.last EXCEPT ![name] = [kind |-> "remove", obj |-> ""]])

\* paths.is_object(name)
IsObject(name) ==
    LET fit == FitProperty(db.session, PathsIdentifier)
    IN DbCall("is_object", name, fit.session, fit.err,
              IF fit.err = "" THEN FitContains(fit.session[fit.at], name) ELSE "",
              db.completed, db.last)

\* the sessions a paths is made on: a new one, one with the Fit of another
\* paths, and one that already holds a Fit with the paths' identifier
Sessions ==
    {<<>>, <<Fit(OtherIdentifier, TRUE)>>}
        \cup {<<[Fit(PathsIdentifier, c) EXCEPT !.objects = o]>> :
                  c \in BOOLEAN, o \in {<<>>} \cup [{"gaussian"} -> {"g1"}]}

CallMakePaths ==
    \E session \in Sessions : MakePaths(session) /\ UNCHANGED <<others, sm, ident>>

CallIsComplete == IsComplete /\ UNCHANGED <<others, sm, ident>>

CallCompleted == Completed /\ UNCHANGED <<others, sm, ident>>

CallSaveObject ==
    \E name \in Names : \E obj \in Objects :
        SaveObject(name, obj) /\ UNCHANGED <<others, sm, ident>>

CallLoadObject ==
    \E name \in Names : \E error \in {"KeyError", "AttributeError"} :
        LoadObject(name, error) /\ UNCHANGED <<others, sm, ident>>

CallRemoveObject ==
    \E name \in Names : \E error \in {"", "KeyError"} :
        RemoveObject(name, error) /\ UNCHANGED <<others, sm, ident>>

CallIsObject ==
    \E name \in Names : IsObject(name) /\ UNCHANGED <<others, sm, ident>>

NextPaths ==
    \/ CallMakePaths
    \/ CallIsComplete
    \/ CallCompleted
    \/ CallSaveObject
    \/ CallLoadObject
    \/ CallRemoveObject
    \/ CallIsObject

SpecPaths == Init /\ [][NextPaths]_vars

\* --------------------------------------------------------------- Identifier
\* a Python str is the sequence of its pieces, "." a piece of its own, so
\* that "1.2" is <<"1", ".", "2">>

\* values: an int, a str, a float, a list, None; s is what str(value) gives
PyInt(piece) == [t |-> "int", s |-> <<piece>>, items |-> <<>>]

PyStr(s) == [t |-> "str", s |-> s, items |-> <<>>]

PyFloat(whole, fraction) ==
    [t |-> "float", s |-> <<whole, ".", fraction>>, items |-> <<>>]

PyList(items) == [t |-> "list", s |-> <<>>, items |-> items]

PyNone == [t |-> "NoneType", s |-> <<>>, items |-> <<>>]

\* an instance of Class: its __dict__ in the order __init__ fills it, and its
\* __identifier_fields__
Class(one, two, three, fields) ==
    [t |-> "Class",
     dict |-> <<[key |-> "one", value |-> one], [key |-> "two", value |-> two],
                [key |-> "three", value |-> three]>>,
     identifier_fields |-> fields]

\* key.startswith("_") or key in ("id", "paths")
SkippedKey(key) == key \in {"_id", "_ids", "id", "paths"}

RECURSIVE Flatten(_)
\* the lists of a list, one after another
Flatten(lists) ==
    IF lists = <<>> THEN <<>>
    ELSE Flatten(SubSeq(lists, 1, Len(lists) - 1)) \o lists[Len(lists)]

\* the entries of a __dict__ whose key is in fields, in their order
IdentifierFieldsOf(dict, fields) ==
    SelectSeq(dict, LAMBDA e : \E i \in DOMAIN fields : fields[i] = e.key)

RECURSIVE HashListOf(_)
\* Identifier._add_value_to_hash_list(value), through add_value_to_hash_list
\* for the values inside: what is appended to hash_list
HashListOf(value) ==
    IF value.t = "Class"
    THEN LET d == IdentifierFieldsOf(value.dict, value.identifier_fields)
         IN Flatten([i \in DOMAIN d |->
                        IF SkippedKey(d[i].key) THEN <<>>
                        ELSE <<(<<d[i].key>>)>> \o HashListOf(d[i].value)])
    ELSE IF value.t \in {"str", "float", "int", "bool"}
    THEN <<value.s>>
    ELSE IF value.t = "list"
    THEN Flatten([i \in DOMAIN value.items |-> HashListOf(value.items[i])])
    ELSE <<>>

\* Identifier(obj): no statement of __init__ raises
IdentifierInit(obj) == [err |-> "", hash_list |-> HashListOf(obj)]

RECURSIVE Join(_)
\* ".".join(hash_list)
Join(hash_list) ==
    IF hash_list = <<>> THEN <<>>
    ELSE IF Len(hash_list) = 1 THEN hash_list[1]
    ELSE Join(SubSeq(hash_list, 1, Len(hash_list) - 1))
             \o <<".">> \o hash_list[Len(hash_list)]

\* md5(...).hexdigest(): two strings have the same digest when they are equal
Md5(s) == [md5 |-> s]

\* Identifier.__str__
IdentifierStr(hash_list) == Md5(Join(hash_list))

\* Identifier.__eq__
IdentifierEq(hash_a, hash_b) == IdentifierStr(hash_a) = IdentifierStr(hash_b)

\* Identifier(obj)
MakeIdentifier(obj) ==
    ident' = [NoIdent EXCEPT !.op = "init", !.a = obj,
                             !.err_a = IdentifierInit(obj).err,
                             !.hash_a = IdentifierInit(obj).hash_list]

\* identifier == Identifier(b), identifier the Identifier made last
CompareIdentifiers(b) ==
    /\ ident.op # "none"
    /\ ident' = [ident EXCEPT
                   !.op = "eq", !.b = b,
                   !.err_b = IdentifierInit(b).err,
                   !.hash_b = IdentifierInit(b).hash_list,
                   !.equal = IdentifierEq(ident.hash_a,
                                          IdentifierInit(b).hash_list)]

\* the values of the attributes, and the __identifier_fields__ given
OneValues ==
    {PyInt("1"), PyStr(<<"1">>), PyFloat("1", "2"),
     PyList(<<PyInt("1"), PyInt("2")>>), PyNone}

TwoValues == {PyInt("2"), PyStr(<<"2">>)}

ThreeValues == {PyInt("3"), PyInt("4")}

FieldChoices == {<<"one", "two">>, <<"one", "two", "three">>, <<"five">>}

Instances ==
    {Class(one, two, three, fields) :
         one \in OneValues, two \in TwoValues, three \in ThreeValues,
         fields \in FieldChoices}

CallMakeIdentifier ==
    \E obj \in Instances : MakeIdentifier(obj) /\ UNCHANGED <<others, sm, db>>

CallCompareIdentifiers ==
    \E b \in Instances : CompareIdentifiers(b) /\ UNCHANGED <<others, sm, db>>

NextIdentifier ==
    \/ CallMakeIdentifier
    \/ CallCompareIdentifiers

SpecIdentifier == Init /\ [][NextIdentifier]_vars

\* ---------------------------------------------------------- the properties
\* the last call was factor_approximation and it returned an approximation
Approximated == result.op = "factor_approximation" /\ result.err = ""

\* the last call was project_factor_approx
Projected == result.op = "project_factor_approx"

RECURSIVE MsgProductOver(_, _, _)
\* the product, seeded with 1., of the messages the MeanFields of the
\* factors in S hold for variable v
MsgProductOver(S, fmf, v) ==
    IF S = {} THEN One
    ELSE LET g == CHOOSE h \in S : TRUE
         IN MsgMul(fmf[g][v], MsgProductOver(S \ {g}, fmf, v))

\* every MeanField of the mapping is keyed by the variables its factor touches
KeysOK(fmf) == \A f \in DOMAIN fmf : DOMAIN fmf[f] = FactorAllVariables(f)

\* C1: a project_factor_approx call leaves every existing EPMeanField as it
\* was, the one it is called on included: the factor_mean_field entry of
\* every factor and the mean_field are the same after the call as before.
C1_ProjectDoesNotMutate ==
    [][result'.op = "project_factor_approx" =>
          \A e \in Objs :
              /\ dicts'[eps'[e].fmf] = Fmf(e)
              /\ MeanFieldOf(eps'[e].factor_graph, dicts'[eps'[e].fmf])
                     = MeanField(e)]_vars

\* C1 witness: a projection that gave a factor a different MeanField
C1_Witness ==
    /\ Projected
    /\ result.approx.factor_dist # result.pre[result.factor]
    /\ Fmf(result.self) = result.pre

\* C2: project_factor_approx returns a new EPMeanField whose mapping sends
\* projection.factor to projection.factor_dist and every other factor to the
\* MeanField the original held for it, over the same factor_graph.
C2_ProjectReplacesEntry ==
    Projected =>
        LET new == Fmf(result.ret)
            f == result.approx.factor
        IN /\ result.ret # result.self
           /\ f \in DOMAIN new
           /\ new[f] = result.approx.factor_dist
           /\ DOMAIN new = (DOMAIN result.pre) \cup {f}
           /\ \A g \in (DOMAIN result.pre) \ {f} : new[g] = result.pre[g]
           /\ eps[result.ret].factor_graph = eps[result.self].factor_graph

\* C2 witness: a projection on a two-factor mapping that changed one entry
C2_Witness ==
    /\ Projected
    /\ Cardinality(DOMAIN result.pre) = 2
    /\ result.approx.factor_dist # result.pre[result.factor]

\* C3: the cavity factor_approximation(f) returns holds, for each of its
\* variables, the product of the messages of the MeanFields of the factors
\* other than f; the MeanField of f itself is not a term of the product.
C3_CavityExcludesSelf ==
    Approximated =>
        LET f == result.factor
            fmf == result.pre
            cavity == result.approx.cavity_dist
        IN /\ (DOMAIN fmf[f]) \subseteq DOMAIN cavity
           /\ \A v \in DOMAIN cavity :
                  cavity[v] = MsgProductOver(
                      {g \in (DOMAIN fmf) \ {f} : v \in DOMAIN fmf[g]}, fmf, v)

\* C3 witness: the approximation of a factor that has a peer
C3_Witness ==
    /\ Approximated
    /\ result.factor = "f2"
    /\ "f1" \in DOMAIN result.pre
    /\ result.approx.cavity_dist["x"] = result.pre["f1"]["x"]

\* C4: the model distribution of factor_approximation(f) is the product of
\* its cavity and its factor_dist, and its factor_dist is the MeanField the
\* EPMeanField holds for f.
C4_ModelIsCavityTimesFactor ==
    Approximated =>
        /\ result.approx.model_dist
               = MeanFieldProd2(result.approx.cavity_dist,
                                result.approx.factor_dist)
        /\ result.approx.factor_dist = Fmf(result.self)[result.factor]

\* C4 witness: an approximation whose cavity is not the identity
C4_Witness ==
    /\ Approximated
    /\ result.approx.model_dist # result.approx.factor_dist
    /\ result.approx.model_dist["x"]
           = MsgMul(result.pre["f1"]["x"], result.pre["f2"]["x"])

\* C5: the cavity of factor_approximation(f) is keyed by exactly the
\* variables f touches, and when f is the only factor it is non-empty and
\* sends each of them to the multiplicative identity.
C5_CavityOverFactorVariables ==
    Approximated =>
        /\ DOMAIN result.approx.cavity_dist = FactorAllVariables(result.factor)
        /\ DOMAIN result.pre = {result.factor} =>
               /\ result.approx.cavity_dist # <<>>
               /\ \A v \in FactorAllVariables(result.factor) :
                      result.approx.cavity_dist[v] = One

\* C6: mean_field is keyed by the variables of the graph, and its message for
\* v is the product, seeded with the identity, of the messages for v of the
\* MeanFields of exactly the factors that touch v, each once.
C6_MeanFieldIsProduct ==
    \A e \in Objs :
        /\ DOMAIN MeanField(e) = GraphAllVariables(eps[e].factor_graph)
        /\ \A v \in GraphAllVariables(eps[e].factor_graph) :
               MeanField(e)[v] = MsgProductOver(
                   {f \in eps[e].factor_graph : v \in FactorAllVariables(f)},
                   Fmf(e), v)

\* C6 witness: a two-factor EPMeanField whose message for the shared
\* variable is the product of two messages and for y is f2's alone
C6_Witness ==
    \E e \in Objs :
        /\ eps[e].factor_graph = {"f1", "f2"}
        /\ MeanField(e)["x"] = MsgMul(Fmf(e)["f1"]["x"], Fmf(e)["f2"]["x"])
        /\ MeanField(e)["y"] = Fmf(e)["f2"]["y"]
        /\ Fmf(e)["f1"]["x"] # Fmf(e)["f2"]["x"]

\* C7 as claimed: in every EPMeanField reached by any project_factor_approx
\* calls, every MeanField is keyed by exactly the variables its factor
\* touches.
C7_KeysAlways == \A e \in Objs : KeysOK(Fmf(e))

\* C7 as amended: from_approx_dists keys every MeanField by exactly the
\* variables its factor touches (free and deterministic), and a
\* project_factor_approx call whose projection.factor_dist is keyed by
\* exactly the variables of projection.factor keeps it so.
C7_KeysKept ==
    /\ (result.op = "from_approx_dists" /\ result.err = "")
           => KeysOK(Fmf(result.ret))
    /\ (/\ Projected
        /\ KeysOK(result.pre)
        /\ DOMAIN result.approx.factor_dist
               = FactorAllVariables(result.approx.factor))
           => KeysOK(Fmf(result.ret))

\* C7 witness: a well-keyed projection for the factor with a deterministic
\* variable, on a well-keyed mapping
C7_Witness ==
    /\ Projected
    /\ KeysOK(result.pre)
    /\ result.approx.factor = "f2"
    /\ DOMAIN result.approx.factor_dist = {"x", "y"}
    /\ DOMAIN result.pre = {"f1", "f2"}

\* C8: after construction no operation changes the mapping an EPMeanField
\* holds: not factor_approximation, not a change to the dict the property
\* returned, not a change to the dict given to the constructor.
C8_MappingNeverChanges ==
    [][\A e \in Objs : dicts'[eps'[e].fmf] = Fmf(e)]_vars

\* C9: from_approx_dists raises KeyError and returns no EPMeanField whenever
\* a factor of the graph touches a variable approx_dists has no entry for.
C9_MissingVariableFails ==
    (/\ result.op = "from_approx_dists"
     /\ ~(GraphAllVariables(result.graph) \subseteq DOMAIN result.pre))
        => (result.err = "KeyError" /\ result.ret = 0)

\* C9 witness: a failed call where only the deterministic variable is missing
C9_Witness ==
    /\ result.op = "from_approx_dists"
    /\ result.err = "KeyError"
    /\ result.graph = {"f1", "f2"}
    /\ DOMAIN result.pre = {"x"}

\* C10: factor_approximation(f) for f not a key of the mapping raises a
\* key-lookup error, returns no FactorApproximation and leaves the mapping
\* as it was.
C10_AbsentFactorFails ==
    (result.op = "factor_approximation"
        /\ result.factor \notin DOMAIN result.pre)
        => /\ result.err = "KeyError"
           /\ result.approx = NoApprox
           /\ Fmf(result.self) = result.pre

\* C10 witness: a failed call for a factor that is not in the graph
C10_Witness ==
    /\ result.op = "factor_approximation"
    /\ result.err = "KeyError"
    /\ result.factor = "f2"
    /\ eps[result.self].factor_graph = {"f1"}

\* the last call read log_evidence and got a value
Evidenced == result.op = "log_evidence" /\ result.err = ""

\* the evidence of variable v: the log-normalisation of the product of all
\* the messages the MeanFields of the mapping hold for v
EvidenceOf(fmf, v) ==
    MsgLogNorm(MsgProductOver({f \in DOMAIN fmf : v \in DOMAIN fmf[f]}, fmf, v))

\* C11: log_evidence is the sum over the factors of (the log-norm of the
\* factor's MeanField minus the evidences of the variables it touches) plus
\* the sum of the evidences of all variables; a variable touched by k
\* factors so counts with net weight 1 - k.
C11_LogEvidenceDecomposition ==
    Evidenced =>
        LET fmf == result.pre
            graph == eps[result.self].factor_graph
            V == GraphAllVariables(graph)
            VE == [v \in V |-> EvidenceOf(fmf, v)]
            K == [v \in V |->
                     Cardinality({f \in graph : v \in FactorAllVariables(f)})]
        IN /\ result.ret
                  = SetSum(graph,
                           [f \in graph |->
                               MeanFieldLogNorm(fmf[f])
                                   - SetSum(FactorAllVariables(f),
                                            [v \in FactorAllVariables(f) |-> VE[v]])])
                    + SetSum(V, VE)
           /\ result.ret
                  = SetSum(graph, [f \in graph |-> MeanFieldLogNorm(fmf[f])])
                    + SetSum(V, [v \in V |-> (1 - K[v]) * VE[v]])

\* C11 witness: the evidence of a two-factor EPMeanField whose factors hold
\* different messages for the shared variable
C11_Witness ==
    /\ Evidenced
    /\ eps[result.self].factor_graph = {"f1", "f2"}
    /\ result.pre["f1"]["x"] # result.pre["f2"]["x"]

C13_ReprNeverRaises ==
    result.op = "repr" =>
        /\ result.err = ""
        /\ result.raised => (result.logged /\ result.nan)
        /\ (\E f \in DOMAIN result.pre :
               \E v \in (DOMAIN result.pre[f]) \cup FactorAllVariables(f) :
                   v \notin GraphAllVariables(eps[result.self].factor_graph))
               => result.raised

\* C13 witness: the representation of an EPMeanField whose log_evidence raised
C13_Witness ==
    /\ result.op = "repr"
    /\ result.raised
    /\ result.nan
    /\ result.err = ""

\* the places in the full log of the records whose status was successful
SuccessfulAt(log) == {i \in DOMAIN log : log[i][2].success}

\* the approximation of the n-th most recent successful record of the log
NthLatest(log, n) ==
    LET at == SuccessfulAt(log)
        i == CHOOSE j \in at : Cardinality({k \in at : k >= j}) = n
    IN log[i][1]

RECURSIVE SuccessfulOnly(_)
\* the log with every failed record removed
SuccessfulOnly(log) ==
    IF log = <<>> THEN <<>>
    ELSE LET front == SuccessfulOnly(SubSeq(log, 1, Len(log) - 1))
         IN IF log[Len(log)][2].success THEN Append(front, log[Len(log)])
            ELSE front

RECURSIVE Replay(_)
\* the history obtained by recording the records of a log one after another
Replay(log) ==
    IF log = <<>> THEN NoHistory
    ELSE RecordInto(Replay(SubSeq(log, 1, Len(log) - 1)),
                    log[Len(log)][1], log[Len(log)][2])

\* C14: recording (approx, status) always appends the pair to the full log,
\* and appends approx to the successful subsequence if and only if the
\* status is truthy; a Status is truthy exactly when its success flag is
\* True, and the default Status is successful.
C14_RecordAppends ==
    /\ hres.op = "record" =>
           /\ history.log = Append(hres.before.log, <<hres.approx, hres.status>>)
           /\ history.successes
                  = IF hres.status.success
                    THEN Append(hres.before.successes, hres.approx)
                    ELSE hres.before.successes
    /\ \A status \in Statuses : StatusBool(status) <=> status.success = TRUE
    /\ StatusBool(DefaultStatus)

\* C14 witness: a failed record made after a successful one
C14_Witness ==
    /\ hres.op = "record"
    /\ ~hres.status.success
    /\ hres.before.successes # <<>>
    /\ Len(history.log) = Len(hres.before.log) + 1
    /\ history.successes = hres.before.successes

\* C15: latest_successful is the approximation of the most recent record
\* whose status was successful, and an error when there is none.
C15_LatestSuccessful ==
    hres.op = "latest_successful" =>
        IF SuccessfulAt(history.log) = {} THEN hres.err # ""
        ELSE hres.err = "" /\ hres.approx = NthLatest(history.log, 1)

\* C15 witness: latest_successful after two different successes and a failure
C15_Witness ==
    /\ hres.op = "latest_successful"
    /\ hres.err = ""
    /\ Cardinality(SuccessfulAt(history.log)) = 2
    /\ ~history.log[Len(history.log)][2].success
    /\ hres.approx # history.log[Len(history.log)][1]
    /\ hres.approx # NthLatest(history.log, 2)

\* C15 witness of the error: latest_successful with only failures recorded
C15_WitnessError ==
    /\ hres.op = "latest_successful"
    /\ hres.err # ""
    /\ history.log # <<>>

\* C16: previous_successful is the approximation of the second most recent
\* successful record, and an error when fewer than two records were
\* successful, also after exactly one success.
C16_PreviousSuccessful ==
    hres.op = "previous_successful" =>
        IF Cardinality(SuccessfulAt(history.log)) < 2 THEN hres.err # ""
        ELSE hres.err = "" /\ hres.approx = NthLatest(history.log, 2)

\* C16 witness: previous_successful raised after exactly one success
C16_Witness ==
    /\ hres.op = "previous_successful"
    /\ hres.err # ""
    /\ Cardinality(SuccessfulAt(history.log)) = 1

\* C16 witness of the value: previous_successful after two different successes
C16_WitnessValue ==
    /\ hres.op = "previous_successful"
    /\ hres.err = ""
    /\ hres.approx = NthLatest(history.log, 2)
    /\ hres.approx # NthLatest(history.log, 1)

\* C17: failed records are transparent: latest_successful and
\* previous_successful are what they are for the sequence of records with
\* every failed record removed.
C17_FailuresTransparent ==
    LET clean == Replay(SuccessfulOnly(history.log))
    IN /\ LatestSuccessfulOf(history.successes)
              = LatestSuccessfulOf(clean.successes)
       /\ PreviousSuccessfulOf(history.successes)
              = PreviousSuccessfulOf(clean.successes)
       /\ hres.op = "latest_successful"
              => (hres.approx = LatestSuccessfulOf(clean.successes).value
                  /\ (hres.err = "") = LatestSuccessfulOf(clean.successes).ok)
       /\ hres.op = "previous_successful"
              => (hres.approx = PreviousSuccessfulOf(clean.successes).value
                  /\ (hres.err = "") = PreviousSuccessfulOf(clean.successes).ok)

\* C17 witness: previous_successful with a failure recorded between the two
\* successes (success, failure, success)
C17_Witness ==
    /\ hres.op = "previous_successful"
    /\ hres.err = ""
    /\ SuccessfulAt(history.log) = {1, 3}
    /\ hres.approx = history.log[1][1]
    /\ history.log[2][1] # history.log[1][1]

\* C17 witness: latest_successful with a failure recorded after the successes
C17_WitnessAfter ==
    /\ hres.op = "latest_successful"
    /\ SuccessfulAt(history.log) = {1, 2}
    /\ Len(history.log) = 3
    /\ hres.approx = history.log[2][1]
    /\ history.log[3][1] # history.log[2][1]

\* C18: when the two most recent successful records hold approximations of
\* equal value, kl_divergence() is 0 and evidence_divergence() is 0.
C18_IdenticalDivergenceZero ==
    (/\ hres.op \in {"kl_divergence", "evidence_divergence"}
     /\ Cardinality(SuccessfulAt(history.log)) >= 2
     /\ SameValue(NthLatest(history.log, 1), NthLatest(history.log, 2)))
        => /\ hres.err = ""
           /\ "kl_divergence" \in hres.asked => hres.kl = 0
           /\ "evidence_divergence" \in hres.asked => hres.evidence = 0

\* C18 witness: both divergences asked of a history whose two latest
\* successes are two objects of equal value, after a success of another value
C18_Witness ==
    /\ hres.asked = {"kl_divergence", "evidence_divergence"}
    /\ hres.err = ""
    /\ SuccessfulAt(history.log) = {1, 2, 3}
    /\ SameValue(history.log[3][1], history.log[2][1])
    /\ history.log[3][1] # history.log[2][1]
    /\ ~SameValue(history.log[1][1], history.log[2][1])
    /\ hres.kl = 0
    /\ hres.evidence = 0

\* the state of a history with n successful records
HistoryState(n) == IF n = 0 THEN 0 ELSE IF n = 1 THEN 1 ELSE 2

\* C19: a FactorHistory moves only forward through empty (0), has-successes
\* (1) and has-history (2): the number of successful records never
\* decreases, no state is left for an earlier one, and only a successful
\* record advances the state.
C19_OnlyForward ==
    [][/\ Len(history'.successes) >= Len(history.successes)
       /\ SubSeq(history'.successes, 1, Len(history.successes)) = history.successes
       /\ HistoryState(Len(history'.successes)) >= HistoryState(Len(history.successes))
       /\ HistoryState(Len(history'.successes)) # HistoryState(Len(history.successes))
              => /\ hres'.op = "record"
                 /\ hres'.status.success
                 /\ HistoryState(Len(history'.successes))
                        = HistoryState(Len(history.successes)) + 1
       /\ HistoryState(Len(history.successes))
              = HistoryState(Cardinality(SuccessfulAt(history.log)))]_vars

\* C19 witness: a history that reached has-history although a failure was
\* recorded while it was in has-successes
C19_Witness ==
    /\ HistoryState(Len(history.successes)) = 2
    /\ SuccessfulAt(history.log) = {1, 3}
    /\ hres.op = "record"
    /\ HistoryState(Len(hres.before.successes)) = 1

\* one whole round was made with the identity optimiser on the two-factor
\* graph, both factors starting with the unit Gaussian for the shared x
UnitRoundDone ==
    /\ ep.rounds = 1
    /\ ep.pending = {}
    /\ ep.identity
    /\ ep.start.factor_graph = {"f1", "f2"}
    /\ ep.start.fmf["f1"]["x"] = UnitGaussian
    /\ ep.start.fmf["f2"]["x"] = UnitGaussian

\* C20: two factors share the variable x and each holds the unit Gaussian
\* for it; after one round in which every factor's approximation is taken
\* with factor_approximation and projected back with its cavity as the new
\* factor distribution, mean_field of x is the product of two unit Gaussians.
C20_UnitRoundProduct ==
    UnitRoundDone =>
        SnapshotMeanField(ep.model_approx)["x"] = MsgMul(UnitGaussian, UnitGaussian)

\* C20 witness: such a round was made, and both factors hold a message for x
C20_Witness ==
    /\ UnitRoundDone
    /\ \A f \in {"f1", "f2"} : "x" \in DOMAIN ep.model_approx.fmf[f]
    /\ SnapshotMeanField(ep.model_approx)["x"] = <<0, 2>>

\* the dense matrix A + u u^T of a scale and a vec
DenseUpdate(scale, vec) ==
    [i \in Idx |-> [j \in Idx |->
        FromInt((IF i = j THEN scale[i] ELSE 0) + vec[i] * vec[j])]]

\* the dense matrix M applied to x from the left (M x) and the right (x M)
DenseApply(M, x) == [i \in Idx |-> RatSum([j \in Idx |-> RatMul(M[i][j], x[j])])]

DenseApplyRight(x, M) ==
    [j \in Idx |-> RatSum([i \in Idx |-> RatMul(x[i], M[i][j])])]

\* the quadratic form u^T A^-1 u of a diagonal A
InvQuadraticForm(scale, vec) ==
    RatSum([i \in Idx |-> Rat(vec[i] * vec[i], scale[i])])

\* the determinant of a diagonal A
DetDiagonal(scale) == RatProd(FromInts(scale))

\* C21: log_det of the ShermanMorrison operator of A and u is the scalar
\* log_det(A) + log(1 + u^T A^-1 u); for the scale [2, 2] and u = [1, 0] it
\* is log 6.
C21_LogDetShermanMorrison ==
    sm.op = "log_det" =>
        /\ sm.ret = Array(0, Log(RatMul(DetDiagonal(sm.scale),
                                        RatAdd(FromInt(1),
                                               InvQuadraticForm(sm.scale, sm.vec)))))
        /\ (sm.scale = <<2, 2>> /\ sm.vec = <<1, 0>>)
               => sm.ret = Array(0, Log(FromInt(6)))

C23_DivideUndoesMultiply ==
    sm.op \in {"ldiv", "rtruediv"} =>
        /\ sm.err = ""
        /\ sm.ret = Array(1, FromInts(sm.x))

\* the places of the rows of a session whose id is the paths' identifier
PathsFits(session) == {i \in DOMAIN session : session[i].id = PathsIdentifier}

\* the paths was made on a session that held no Fit with its identifier
FreshSession == db.made /\ PathsFits(db.initial) = {}

\* is_object(n) tells whether the last save or remove of n was a save, and
\* load_object(n) returns the object saved last
ObjectFollowsLastSave ==
    /\ db.op = "is_object" =>
           (db.err = "" /\ db.ret = (db.last[db.name].kind = "save"))
    /\ (db.op = "load_object" /\ db.last[db.name].kind = "save") =>
           (db.err = "" /\ db.ret = db.last[db.name].obj)
    /\ (db.op = "save_object" \/ db.op = "remove_object") =>
           \A i \in PathsFits(db.session) :
               (db.name \in DOMAIN db.session[i].objects)
                   = (db.op = "save_object")

\* C24 (as stated): for a DatabasePaths and any name n, is_object(n) is False
\* before any save, True after save_object(n, obj), when load_object(n)
\* returns obj, and False again after remove_object(n): it is True exactly
\* when the last save or remove of n was a save.
C24_IsObjectFollowsLastSave == db.made => ObjectFollowsLastSave

\* C24 (amended): the same for a DatabasePaths made on a session that holds
\* no Fit with the paths' identifier.
C24_IsObjectFollowsLastSaveFresh == FreshSession => ObjectFollowsLastSave

\* C24 witness: is_object(n) is False after a remove that followed a save of
\* n, while another object is still there
C24_Witness ==
    /\ FreshSession
    /\ db.op = "is_object"
    /\ db.ret = FALSE
    /\ db.last[db.name].kind = "remove"
    /\ \E n \in Names \ {db.name} : db.last[n].kind = "save"

\* C24 witness: load_object(n) returned the object saved last
C24_WitnessLoad ==
    /\ FreshSession
    /\ db.op = "load_object"
    /\ db.err = ""
    /\ db.ret = "g2"

\* after completed() the paths and the stored Fit are complete
CompleteStays ==
    db.completed =>
        /\ PathsFits(db.session) # {}
        /\ \A i \in PathsFits(db.session) : db.session[i].is_complete
        /\ db.op = "is_complete" => (db.err = "" /\ db.ret = TRUE)

\* C25 (as stated): a newly made DatabasePaths reports is_complete False;
\* after completed() is_complete of the paths and of the stored Fit are True
\* and no later operation makes it False again.
C25_CompleteOnlyAfterCompleted ==
    /\ (db.op = "is_complete" /\ ~db.completed) => db.ret = FALSE
    /\ CompleteStays

\* C25 (amended): a DatabasePaths made on a session that holds no Fit with
\* its identifier reports is_complete False until completed() is called;
\* after completed() is_complete of the paths and of the stored Fit are True
\* and no later operation makes it False again.
C25_CompleteOnlyAfterCompletedFresh ==
    /\ (FreshSession /\ db.op = "is_complete" /\ ~db.completed) =>
           (db.err = "" /\ db.ret = FALSE)
    /\ CompleteStays

\* C25 witness: is_complete is True after completed() and later saves and
\* removes
C25_Witness ==
    /\ FreshSession
    /\ db.completed
    /\ db.op = "is_complete"
    /\ db.ret = TRUE
    /\ \E n \in Names : db.last[n].kind = "remove"
    /\ \E n \in Names : db.last[n].kind = "save"

\* C25 witness: is_complete is False on a new paths that saved an object
C25_WitnessNew ==
    /\ FreshSession
    /\ ~db.completed
    /\ db.op = "is_complete"
    /\ db.ret = FALSE
    /\ \E n \in Names : db.last[n].kind = "save"

\* C26: after any operation of the paths the session holds exactly one Fit
\* with the paths' identifier; every operation reads and writes that Fit, no
\* operation adds a second one or touches the Fit of another paths.
C26_OneFit ==
    [][(db'.made /\ db'.op # "init") =>
          /\ Cardinality(PathsFits(db'.session)) = 1
          /\ db'.err # "MultipleResultsFound"
          /\ PathsFits(db.session) # {} =>
                 /\ PathsFits(db'.session) = PathsFits(db.session)
                 /\ Len(db'.session) = Len(db.session)
          /\ \A i \in (DOMAIN db.session) \ PathsFits(db.session) :
                 db'.session[i] = db.session[i]]_vars

\* C26 witness: an object saved through one access of the Fit was loaded
\* through a later one, in a session that also holds the Fit of another paths
C26_Witness ==
    /\ db.op = "load_object"
    /\ db.err = ""
    /\ db.initial = <<Fit(OtherIdentifier, TRUE)>>
    /\ Len(db.session) = 2
    /\ db.session[2].id = PathsIdentifier

\* the names of the attributes an instance has
AttributeNames(obj) == {obj.dict[i].key : i \in DOMAIN obj.dict}

\* the value of the attribute `name` of an instance
Attribute(obj, name) ==
    obj.dict[CHOOSE i \in DOMAIN obj.dict : obj.dict[i].key = name].value

\* the names listed in the __identifier_fields__ of an instance
Listed(obj) == {obj.identifier_fields[i] : i \in DOMAIN obj.identifier_fields}

\* two instances with the same __identifier_fields__, all of them attributes
SameListedFields(a, b) ==
    /\ a.identifier_fields = b.identifier_fields
    /\ Listed(a) \subseteq AttributeNames(a)
    /\ Listed(b) \subseteq AttributeNames(b)

\* C27: the Identifier depends only on the attributes named in
\* __identifier_fields__: two objects of the class that agree on every listed
\* attribute have equal Identifiers whatever their other attributes, and two
\* that differ on a listed attribute have different Identifiers.
C27_IdentifierOfListedFields ==
    (ident.op = "eq" /\ SameListedFields(ident.a, ident.b)) =>
        ident.equal
            = (\A name \in Listed(ident.a) :
                   Attribute(ident.a, name) = Attribute(ident.b, name))

\* C28: Identifier(obj) raises an AssertionError when __identifier_fields__
\* names an attribute the object does not have.
C28_MissingFieldRaises ==
    (ident.op = "init" /\ ~(Listed(ident.a) \subseteq AttributeNames(ident.a)))
        => ident.err_a = "AssertionError"

\* after a projection for factor f: factor_approximation(f) on the
\* EPMeanField returned has the cavity factor_approximation(f) had on the
\* original, and the projected factor_dist
CavityKept ==
    LET f == result.approx.factor
        before == FactorApproximationOf(result.pre, f)
        after == FactorApproximationOf(Fmf(result.ret), f)
    IN /\ before.ok
       /\ after.ok
       /\ after.approx.cavity_dist = before.approx.cavity_dist
       /\ after.approx.factor_dist = result.approx.factor_dist

C30_FactorsAlways == \A e \in Objs : DOMAIN Fmf(e) = eps[e].factor_graph

\* C30 (amended): from_approx_dists keys the mapping by exactly the factors
\* of the graph; a projection never removes a factor, and one whose factor
\* is in the graph keeps the keys as they are.
C30_FactorsKept ==
    /\ (result.op = "from_approx_dists" /\ result.err = "")
           => DOMAIN Fmf(result.ret) = eps[result.ret].factor_graph
    /\ Projected =>
           /\ DOMAIN result.pre \subseteq DOMAIN Fmf(result.ret)
           /\ eps[result.ret].factor_graph = eps[result.self].factor_graph
           /\ (/\ DOMAIN result.pre = eps[result.self].factor_graph
               /\ result.approx.factor \in eps[result.self].factor_graph)
                  => DOMAIN Fmf(result.ret) = eps[result.ret].factor_graph

\* C30 witness: a projection for a factor of a two-factor graph
C30_Witness ==
    /\ Projected
    /\ eps[result.self].factor_graph = {"f1", "f2"}
    /\ DOMAIN result.pre = {"f1", "f2"}
    /\ result.approx.factor = "f1"
    /\ DOMAIN Fmf(result.ret) = {"f1", "f2"}
    /\ Fmf(result.ret) # result.pre

====
